---- MODULE Spec2Model ----
(***************************************************************************)
(* Link Spread Insights Dashboard (src/app.py).                            *)
(*                                                                         *)
(* The script loads a table of posts once, then is re-run top to bottom    *)
(* on every input event.  Each run filters the table by the two text       *)
(* inputs, shows metrics and charts, saves the charts to temp files and    *)
(* writes a PDF report.                                                    *)
(*                                                                         *)
(* Text is modelled as a sequence of one-character strings over Chars.     *)
(***************************************************************************)
EXTENDS Integers, Sequences, FiniteSets, TLC

VARIABLES
    df,         \* the table loaded at process start (sequence of rows)
    loaded,     \* history: the table as it was right after loading
    domain1,    \* value of the "Domain 1" text input
    domain2,    \* value of the "Domain 2" text input
    out,        \* what the last run of the script displayed and produced
    disk,       \* temp files the program has created and not removed
    nruns,      \* number of script runs so far
    call        \* a single call of one helper: its arguments and result

vars == <<df, loaded, domain1, domain2, out, disk, nruns, call>>

----------------------------------------------------------------------------
(* Bounds of the model *)

MaxQueryLen == 2      \* longest query string given to get_domain_data alone
MaxRows     == 2      \* most rows of the loaded table
MaxRuns     == 2      \* most script runs of one session
MaxPosts    == 3      \* most filtered posts given to plot_time_series alone
MaxDay      == 3      \* calendar days are 1..MaxDay
MaxCharts   == 3      \* longest chart_paths list given to generate_pdf alone
MaxMean     == 14     \* weekly means are 0..MaxMean

----------------------------------------------------------------------------
(* Text *)

BSL == "\\"

\* letters in both cases, a digit, the dot of a host name, the backslash
Chars == {"d", "D", "1", ".", BSL}

SeqsUpTo(S, n) == UNION {[1..k -> S] : k \in 0..n}

\* str.upper()/str.lower() on one character
Lower(c) == IF c = "D" THEN "d" ELSE c

IsDigit(c) == c = "1"

\* s[i..i+Len(p)-1] equals p when letter case is ignored
LiteralAt(p, s, i) ==
    /\ i + Len(p) - 1 <= Len(s)
    /\ \A k \in 1..Len(p) : Lower(s[i + k - 1]) = Lower(p[k])

\* p occurs in s as a literal substring, letter case ignored
ContainsLiteralNoCase(p, s) == \E i \in 1..(Len(s) + 1) : LiteralAt(p, s, i)

\* two strings that differ only in letter case
SameUpToCase(p, q) ==
    /\ Len(p) = Len(q)
    /\ \A k \in 1..Len(p) : Lower(p[k]) = Lower(q[k])

----------------------------------------------------------------------------
(* Regular expressions: Series.str.contains(pat, case=False, na=False)     *)
(* leaves regex at its default, True, so pat is compiled with              *)
(* re.compile(pat, flags=re.IGNORECASE) and each value is tested with      *)
(* pattern.search(value).  Over Chars the pattern language is: a letter or *)
(* digit is itself, "." is any character, a backslash escapes the next     *)
(* character: \d a digit, \D a non-digit, \. a dot, \\ a backslash, \1 a   *)
(* reference to group 1, which does not exist (re.error), and a trailing   *)
(* backslash is a bad escape (re.error).                                   *)

Tok(kind, ch) == [kind |-> kind, ch |-> ch]

ReError == [ok |-> FALSE, toks |-> <<>>]

RECURSIVE re_compile(_)
re_compile(pat) ==
    IF pat = <<>> THEN [ok |-> TRUE, toks |-> <<>>]
    ELSE IF Head(pat) = BSL
    THEN IF Len(pat) = 1 \/ pat[2] = "1" THEN ReError
         ELSE LET rest == re_compile(SubSeq(pat, 3, Len(pat)))
                  tok  == CASE pat[2] = "d" -> Tok("digit", "d")
                            [] pat[2] = "D" -> Tok("nondigit", "D")
                            [] OTHER        -> Tok("lit", pat[2])
              IN  IF rest.ok THEN [ok |-> TRUE, toks |-> <<tok>> \o rest.toks]
                  ELSE ReError
    ELSE LET rest == re_compile(Tail(pat))
             tok  == IF Head(pat) = "." THEN Tok("any", ".")
                     ELSE Tok("lit", Head(pat))
         IN  IF rest.ok THEN [ok |-> TRUE, toks |-> <<tok>> \o rest.toks]
             ELSE ReError

\* one pattern item against one character, under re.IGNORECASE
TokMatches(tok, c) ==
    CASE tok.kind = "lit"      -> Lower(c) = Lower(tok.ch)
      [] tok.kind = "any"      -> TRUE
      [] tok.kind = "digit"    -> IsDigit(c)
      [] tok.kind = "nondigit" -> ~IsDigit(c)

\* pattern.search(s) is not None
re_search(toks, s) ==
    \E i \in 1..(Len(s) + 1) :
        /\ i + Len(toks) - 1 <= Len(s)
        /\ \A k \in 1..Len(toks) : TokMatches(toks[k], s[i + k - 1])

----------------------------------------------------------------------------
(* The table *)

\* a missing value of the domain column
NaN == <<"NaN">>

Subreddits == {"a", "b"}
Days       == 1..MaxDay

Row(i, dom, sub, day) ==
    [idx |-> i, domain |-> dom, subreddit |-> sub, created_utc |-> day]

\* pd.DataFrame(): no rows
EmptyFrame == <<>>

\* df['domain'].str.contains(domain, case=False, na=False) for one row
str_contains(row, toks) ==
    IF row.domain = NaN THEN FALSE ELSE re_search(toks, row.domain)

\* get_domain_data(domain): the rows kept, or the error raised
get_domain_data(table, domain) ==
    IF domain = <<>> THEN [raised |-> FALSE, rows |-> EmptyFrame]
    ELSE LET pat == re_compile(domain)
         IN  IF ~pat.ok THEN [raised |-> TRUE, rows |-> EmptyFrame]
             ELSE [raised |-> FALSE,
                   rows |-> SelectSeq(table, LAMBDA r : str_contains(r, pat.toks))]

----------------------------------------------------------------------------
(* Aggregation and charts *)

SetMin(S) == CHOOSE x \in S : \A y \in S : x <= y
SetMax(S) == CHOOSE x \in S : \A y \in S : x >= y

NoSeries == [start |-> 0, values |-> <<>>]

\* a count per day that has a post, the days without posts left out
resample_size_days_with_posts(data) ==
    IF data = <<>> THEN NoSeries
    ELSE LET days == {data[i].created_utc : i \in DOMAIN data}
             nth(k) == CHOOSE d \in days : Cardinality({e \in days : e < d}) = k - 1
         IN  [start  |-> SetMin(days),
              values |-> [k \in 1..Cardinality(days) |->
                            Cardinality({i \in DOMAIN data :
                                           data[i].created_utc = nth(k)})]]

\* data.resample('D', on='created_utc').size(): one count per calendar day
\* from the first to the last day of data, empty for empty data
resample_size(data) ==
    IF data = <<>> THEN NoSeries
    ELSE LET days == {data[i].created_utc : i \in DOMAIN data}
             lo   == SetMin(days)
             hi   == SetMax(days)
         IN  [start  |-> lo,
              values |-> [k \in 1..(hi - lo + 1) |->
                            Cardinality({i \in DOMAIN data :
                                           data[i].created_utc = lo + k - 1})]]

SeriesMax(ts) == SetMax({ts.values[k] : k \in DOMAIN ts.values})

\* ts.idxmax(): the first day holding the largest count
SeriesIdxMax(ts) ==
    ts.start - 1 + SetMin({k \in DOMAIN ts.values : ts.values[k] = SeriesMax(ts)})

RECURSIVE SeqSum(_)
SeqSum(s) == IF s = <<>> THEN 0 ELSE Head(s) + SeqSum(Tail(s))

\* plot_time_series(data, label): the figure and the daily series
plot_time_series(data, label) ==
    LET ts == resample_size(data)
    IN  [fig |-> [kind |-> "timeseries", lines |-> <<ts>>, legend |-> label # <<>>],
         ts  |-> ts]

\* data['subreddit'].value_counts(): posts per subreddit that occurs
value_counts(data) ==
    [s \in {data[i].subreddit : i \in DOMAIN data} |->
        Cardinality({i \in DOMAIN data : data[i].subreddit = s})]

FirstSeen(data, s) == SetMin({i \in DOMAIN data : data[i].subreddit = s})

\* value_counts().idxmax(): the most frequent subreddit, the one met first
\* among equals
value_counts_idxmax(data) ==
    LET vc == value_counts(data)
    IN  CHOOSE s \in DOMAIN vc :
            \A t \in DOMAIN vc :
                \/ vc[s] > vc[t]
                \/ vc[s] = vc[t] /\ FirstSeen(data, s) <= FirstSeen(data, t)

TopN == 10

\* plot_subreddit_bar(data): a bar per subreddit among the ten most frequent
plot_subreddit_bar(data) ==
    LET n == Cardinality(DOMAIN value_counts(data))
    IN  [kind |-> "subreddit_bar", lines |-> <<>>, legend |-> FALSE,
         bars |-> IF n > TopN THEN TopN ELSE n]

\* generate_insights(data, domain)
generate_insights(data, domain) ==
    IF data = <<>>
    THEN [kind |-> "no_data", domain |-> domain, top_sub |-> "N/A",
          peak_day |-> 0, lines |-> 1]
    ELSE [kind |-> "summary", domain |-> domain,
          top_sub |-> value_counts_idxmax(data),
          peak_day |-> SeriesIdxMax(resample_size(data)), lines |-> 3]

----------------------------------------------------------------------------
(* Temp files *)

Path(n, suffix) == [tmp |-> n, suffix |-> suffix]

\* an empty path string
NoPath == Path(0, "")

File(path, holds) == [path |-> path, holds |-> holds]

\* os.path.exists(path)
path_exists(dsk, path) == \E f \in dsk : f.path = path

\* tempfile.NamedTemporaryFile(delete=False, suffix=...): a name not in use
NamedTemporaryFile(dsk, suffix) ==
    Path(1 + SetMax({0} \cup {f.path.tmp : f \in dsk}), suffix)

\* save_chart(fig): the figure written to a new .png that is never removed
save_chart(dsk, fig) ==
    LET p == NamedTemporaryFile(dsk, ".png")
    IN  [path |-> p, disk |-> dsk \cup {File(p, fig.kind)}]

----------------------------------------------------------------------------
(* PDF report *)

NoNote == [kind |-> "None", winner |-> <<>>, loser |-> <<>>, margin |-> 0]

\* canvas.Canvas: the pages shown so far and the page being drawn
Canvas == [pages |-> <<>>, page |-> <<>>]

draw(c, item) == [c EXCEPT !.page = Append(@, item)]

\* Canvas.showPage(): close the page being drawn and start an empty one
showPage(c) == [pages |-> Append(c.pages, c.page), page |-> <<>>]

\* Canvas.save(): a page with something drawn on it is closed first
save(c) == IF c.page # <<>> THEN showPage(c).pages ELSE c.pages

Item(kind, chart) == [kind |-> kind, chart |-> chart]

\* the text drawn on the first page, lines 81-118
TextItems(d1, d2, stats, insights, note) ==
    <<Item("title", NoPath), Item("domain1", NoPath)>>
    \o (IF d2 # <<>> THEN <<Item("domain2", NoPath)>> ELSE <<>>)
    \o <<Item("stats_heading", NoPath), Item("total_posts", NoPath),
         Item("peak_posts", NoPath), Item("top_subreddit", NoPath),
         Item("insights_heading", NoPath)>>
    \o [k \in 1..insights.lines |-> Item("insight_line", NoPath)]
    \o (IF note.kind # "None"
        THEN <<Item("verdict_heading", NoPath), Item("verdict", NoPath)>>
        ELSE <<>>)

RECURSIVE draw_all(_, _)
draw_all(c, items) ==
    IF items = <<>> THEN c ELSE draw_all(draw(c, Head(items)), Tail(items))

\* the loop of lines 121-124 over chart_paths
RECURSIVE add_charts_unchecked(_, _, _)
add_charts_unchecked(c, dsk, charts) ==
    IF charts = <<>> THEN c
    ELSE add_charts_unchecked(draw(showPage(c), Item("image", Head(charts))),
                              dsk, Tail(charts))

RECURSIVE add_charts(_, _, _)
add_charts(c, dsk, charts) ==
    IF charts = <<>> THEN c
    ELSE IF Head(charts) # NoPath /\ path_exists(dsk, Head(charts))
         THEN add_charts(draw(showPage(c), Item("image", Head(charts))),
                         dsk, Tail(charts))
         ELSE add_charts(c, dsk, Tail(charts))

\* generate_pdf(...): the path of the new file, its pages, the disk after
generate_pdf(dsk, d1, d2, stats, insights, note, chart_paths) ==
    LET p     == NamedTemporaryFile(dsk, ".pdf")
        dsk1  == dsk \cup {File(p, "report")}
        c     == draw_all(Canvas, TextItems(d1, d2, stats, insights, note))
        pages == save(add_charts(c, dsk1, chart_paths))
    IN  [path |-> p, pages |-> pages, disk |-> dsk1]

----------------------------------------------------------------------------
(* One run of the script, lines 134-224 *)

Idx(frame) == [k \in DOMAIN frame |-> frame[k].idx]

NoInsights == [kind |-> "None", domain |-> <<>>, top_sub |-> "N/A",
               peak_day |-> 0, lines |-> 0]

NoStats == [total_posts |-> 0, peak_posts |-> 0, top_subreddit |-> "N/A"]

\* what a run leaves when it stops before the summary section
Stopped(status) ==
    [status |-> status, filtered1 |-> <<>>, filtered2 |-> <<>>,
     total |-> 0, peak |-> 0, top_sub |-> "N/A", ts |-> NoSeries,
     verdict |-> NoNote, insights |-> NoInsights, stats |-> NoStats,
     chart_paths |-> <<>>, pdf |-> NoPath, pages |-> <<>>]

\* ts.max() if len(ts) else 0
PeakPosts(ts) == IF Len(ts.values) # 0 THEN SeriesMax(ts) ELSE 0

\* filtered['subreddit'].value_counts().idxmax() if not filtered.empty else "N/A"
TopSubreddit(data) == IF data # <<>> THEN value_counts_idxmax(data) ELSE "N/A"

\* the comparison verdict, lines 180-186
ComparisonNote(d1, d2, n1, n2) ==
    LET diff == n1 - n2
    IN  IF diff > 0
        THEN [kind |-> "stronger", winner |-> d1, loser |-> d2, margin |-> diff]
        ELSE IF diff < 0
        THEN [kind |-> "stronger", winner |-> d2, loser |-> d1, margin |-> -diff]
        ELSE [kind |-> "equal", winner |-> <<>>, loser |-> <<>>, margin |-> 0]

\* lines 144-224: the summary, the charts, the verdict and the report
Summary(dsk, d1, d2, f1, f2) ==
    LET p1      == plot_time_series(f1, <<>>)
        ts1     == p1.ts
        top     == TopSubreddit(f1)
        peak    == PeakPosts(ts1)
        compare == d2 # <<>> /\ f2 # <<>>
        figcmp  == [plot_time_series(f1, d1).fig EXCEPT
                      !.kind   = "comparison",
                      !.lines  = Append(@, plot_time_series(f2, d2).ts),
                      !.legend = TRUE]
        note    == IF compare THEN ComparisonNote(d1, d2, Len(f1), Len(f2))
                   ELSE NoNote
        text    == generate_insights(f1, d1)
        stats   == [total_posts |-> Len(f1), peak_posts |-> peak,
                    top_subreddit |-> top]
        s1      == save_chart(dsk, p1.fig)
        s2      == save_chart(s1.disk, plot_subreddit_bar(f1))
        s3      == save_chart(s2.disk, figcmp)
        charts  == IF compare THEN <<s1.path, s2.path, s3.path>>
                   ELSE <<s1.path, s2.path>>
        dsk3    == IF compare THEN s3.disk ELSE s2.disk
        pdf     == generate_pdf(dsk3, d1, d2, stats, text, note, charts)
    IN  [out  |-> [status |-> "ok", filtered1 |-> Idx(f1), filtered2 |-> Idx(f2),
                   total |-> Len(f1), peak |-> peak, top_sub |-> top, ts |-> ts1,
                   verdict |-> note, insights |-> text, stats |-> stats,
                   chart_paths |-> charts, pdf |-> pdf.path, pages |-> pdf.pages],
         disk |-> pdf.disk]

\* the whole script for one pair of input values
Script(table, dsk, d1, d2) ==
    LET r1 == get_domain_data(table, d1)
        r2 == IF d2 # <<>> THEN get_domain_data(table, d2)
              ELSE [raised |-> FALSE, rows |-> EmptyFrame]
    IN  IF r1.raised \/ r2.raised
        THEN [out |-> Stopped("raised"), disk |-> dsk]
        ELSE IF d1 = <<>>
        THEN [out |-> [Stopped("blank") EXCEPT !.filtered2 = Idx(r2.rows)],
              disk |-> dsk]
        ELSE Summary(dsk, d1, d2, r1.rows, r2.rows)

----------------------------------------------------------------------------
(* The session: load once, then one run per input event *)

DomainValues == {NaN, <<"d", "1">>, <<"D", ".">>}

\* what the user may type into a text input: nothing, or one character
TextInputs == SeqsUpTo(Chars, 1)

\* where and when a post was made
Postings == {<<"a", 1>>, <<"b", 2>>}

RowValues == {Row(0, dom, p[1], p[2]) : dom \in DomainValues, p \in Postings}

\* pd.read_csv: the rows in file order under a RangeIndex
read_csv(rows) == [i \in DOMAIN rows |-> [rows[i] EXCEPT !.idx = i - 1]]

Tables == {read_csv(rows) : rows \in SeqsUpTo(RowValues, MaxRows)}

NoCall == [fn |-> "none", done |-> FALSE, args |-> <<>>, ret |-> <<>>]

Init ==
    /\ df \in Tables
    /\ loaded = df
    /\ domain1 = <<>>
    /\ domain2 = <<>>
    /\ out = Stopped("loaded")
    /\ disk = {}
    /\ nruns = 0
    /\ call = NoCall

\* a run that left the table filtered in place
RunScriptInPlace(d1, d2) ==
    /\ nruns < MaxRuns
    /\ LET r == Script(df, disk, d1, d2)
       IN  /\ out' = r.out
           /\ disk' = r.disk
           /\ df' = IF r.out.status = "ok"
                    THEN SelectSeq(df, LAMBDA row :
                           \E k \in DOMAIN r.out.filtered1 :
                               r.out.filtered1[k] = row.idx)
                    ELSE df
    /\ domain1' = d1
    /\ domain2' = d2
    /\ nruns' = nruns + 1
    /\ UNCHANGED <<loaded, call>>

\* the script run with input values d1, d2; nothing assigns df
RunScript(d1, d2) ==
    /\ nruns < MaxRuns
    /\ LET r == Script(df, disk, d1, d2)
       IN  /\ out' = r.out
           /\ disk' = r.disk
    /\ domain1' = d1
    /\ domain2' = d2
    /\ nruns' = nruns + 1
    /\ UNCHANGED <<df, loaded, call>>

\* the first run, or a re-run by the download button: inputs as they are
Rerun == RunScript(domain1, domain2)

\* the user changes Domain 1
ChangeDomain1 == \E q \in TextInputs : q # domain1 /\ RunScript(q, domain2)

\* the user changes Domain 2
ChangeDomain2 == \E q \in TextInputs : q # domain2 /\ RunScript(domain1, q)

Next == Rerun \/ ChangeDomain1 \/ ChangeDomain2

Spec == Init /\ [][Next]_vars

----------------------------------------------------------------------------
(* get_domain_data alone: a table and two queries that differ only in the  *)
(* case of their letters                                                   *)

Idle == /\ loaded = df
        /\ domain1 = <<>>
        /\ domain2 = <<>>
        /\ out = Stopped("loaded")
        /\ disk = {}
        /\ nruns = 0

Queries == SeqsUpTo(Chars, MaxQueryLen) \ {<<>>}

FilterTables ==
    {read_csv(rows) :
        rows \in SeqsUpTo({Row(0, dom, "a", 1) : dom \in DomainValues}, MaxRows)}

InitFilter ==
    /\ df \in FilterTables
    /\ Idle
    /\ \E q1 \in Queries : \E q2 \in {q \in Queries : SameUpToCase(q1, q)} :
          call = [fn |-> "get_domain_data", done |-> FALSE,
                  args |-> <<q1, q2>>, ret |-> <<>>]

Returned(r) == [raised |-> r.raised, rows |-> Idx(r.rows)]

CallGetDomainData ==
    /\ call.fn = "get_domain_data"
    /\ ~call.done
    /\ call' = [call EXCEPT
                  !.done = TRUE,
                  !.ret  = <<Returned(get_domain_data(df, call.args[1])),
                             Returned(get_domain_data(df, call.args[2]))>>]
    /\ UNCHANGED <<df, loaded, domain1, domain2, out, disk, nruns>>

SpecFilter == InitFilter /\ [][CallGetDomainData]_vars

----------------------------------------------------------------------------
(* plot_time_series and the metrics alone: any frame of filtered posts     *)

Frames ==
    {read_csv(rows) :
        rows \in SeqsUpTo({Row(0, <<"d", "1">>, sub, day) :
                              sub \in Subreddits, day \in Days}, MaxPosts)}

InitSeries ==
    /\ df = <<>>
    /\ Idle
    /\ \E data \in Frames :
          call = [fn |-> "plot_time_series", done |-> FALSE,
                  args |-> data, ret |-> <<>>]

\* lines 150-156: the series, "Total Posts" and "Peak Posts in a Day"
CallPlotTimeSeries ==
    /\ call.fn = "plot_time_series"
    /\ ~call.done
    /\ LET ts == plot_time_series(call.args, <<>>).ts
       IN  call' = [call EXCEPT
                      !.done = TRUE,
                      !.ret  = [ts |-> ts, total |-> Len(call.args),
                                peak |-> PeakPosts(ts)]]
    /\ UNCHANGED <<df, loaded, domain1, domain2, out, disk, nruns>>

SpecSeries == InitSeries /\ [][CallPlotTimeSeries]_vars

----------------------------------------------------------------------------
(* generate_pdf alone: any list of chart paths, existing or not            *)

ChartFiles == {File(Path(1, ".png"), "timeseries"),
               File(Path(2, ".png"), "subreddit_bar")}

ChartPaths == {NoPath} \cup {f.path : f \in ChartFiles}

InitPdf ==
    /\ df = <<>>
    /\ loaded = df
    /\ domain1 = <<"d">>
    /\ domain2 \in {<<>>, <<"D">>}
    /\ out = Stopped("loaded")
    /\ disk \in SUBSET ChartFiles
    /\ nruns = 0
    /\ \E charts \in SeqsUpTo(ChartPaths, MaxCharts) :
       \E note \in {NoNote, ComparisonNote(domain1, domain2, 1, 1)} :
       \E text \in {generate_insights(<<>>, domain1),
                    generate_insights(<<Row(0, <<"d">>, "a", 1)>>, domain1)} :
          call = [fn |-> "generate_pdf", done |-> FALSE,
                  args |-> [stats |-> NoStats, insights |-> text,
                            note |-> note, chart_paths |-> charts],
                  ret |-> <<>>]

CallGeneratePdf ==
    /\ call.fn = "generate_pdf"
    /\ ~call.done
    /\ LET a   == call.args
           pdf == generate_pdf(disk, domain1, domain2, a.stats, a.insights,
                               a.note, a.chart_paths)
       IN  /\ call' = [call EXCEPT !.done = TRUE,
                         !.ret = [path |-> pdf.path, pages |-> pdf.pages]]
           /\ disk' = pdf.disk
    /\ UNCHANGED <<df, loaded, domain1, domain2, out, nruns>>

SpecPdf == InitPdf /\ [][CallGeneratePdf]_vars

----------------------------------------------------------------------------
(* Trend classification: the mean of the trailing week against the mean of *)
(* the week before it, with thresholds 1.3 and 0.7 on their ratio.  The    *)
(* ratio test is written without division: recent / prev > 1.3 is         *)
(* 10 * recent > 13 * prev, also for a preceding mean of 0.                *)

classify_trend_inclusive(recent, prev) ==
    IF 10 * recent >= 13 * prev THEN "increasing"
    ELSE IF 10 * recent <= 7 * prev THEN "declining"
    ELSE "stable"

classify_trend(recent, prev) ==
    IF 10 * recent > 13 * prev THEN "increasing"
    ELSE IF 10 * recent < 7 * prev THEN "declining"
    ELSE "stable"

InitTrend ==
    /\ df = <<>>
    /\ Idle
    /\ \E recent \in 0..MaxMean : \E prev \in 0..MaxMean :
          call = [fn |-> "classify_trend", done |-> FALSE,
                  args |-> [recent |-> recent, prev |-> prev], ret |-> <<>>]

CallClassifyTrend ==
    /\ call.fn = "classify_trend"
    /\ ~call.done
    /\ call' = [call EXCEPT
                  !.done = TRUE,
                  !.ret  = classify_trend(call.args.recent, call.args.prev)]
    /\ UNCHANGED <<df, loaded, domain1, domain2, out, disk, nruns>>

SpecTrend == InitTrend /\ [][CallClassifyTrend]_vars

----------------------------------------------------------------------------
(* Properties *)

\* a run of the script has taken place
Ran == out.status \in {"raised", "blank", "ok"}

\* index labels of the rows whose domain is present and holds q as a literal
\* substring, letter case ignored
LiteralMatches(table, q) ==
    {table[i].idx : i \in {j \in DOMAIN table :
        table[j].domain # NaN /\ ContainsLiteralNoCase(q, table[j].domain)}}

Elems(s) == {s[k] : k \in DOMAIN s}

\* C1: for every non-empty query q, get_domain_data(q) returns exactly the
\* rows whose domain is present and contains q as a literal substring when
\* letter case is ignored: none more, none less, and it does return.
C1_ExactLiteralSubstring ==
    (call.fn = "get_domain_data" /\ call.done) =>
        /\ ~call.ret[1].raised
        /\ Elems(call.ret[1].rows) = LiteralMatches(df, call.args[1])

\* C2: two queries that differ only in letter case give identical row sets
\* over the same table.
C2_CaseInsensitive ==
    (call.fn = "get_domain_data" /\ call.done) => call.ret[1] = call.ret[2]

\* C3: when a non-empty Domain 1 is contained in no domain of the table, the
\* filter returns zero rows and the run completes: 0 posts, peak 0, top
\* subreddit "N/A", the no-data insight for that domain, charts saved and the
\* PDF generated.
C3_NoMatchRunCompletes ==
    (Ran /\ domain1 # <<>> /\ LiteralMatches(loaded, domain1) = {}) =>
        /\ out.status = "ok"
        /\ out.filtered1 = <<>>
        /\ out.total = 0
        /\ out.peak = 0
        /\ out.top_sub = "N/A"
        /\ out.insights.kind = "no_data"
        /\ out.insights.domain = domain1
        /\ Len(out.chart_paths) >= 2
        /\ out.pdf # NoPath

\* the chart paths generate_pdf turns into pages: non-empty and on disk
KeptCharts(dsk, charts) ==
    SelectSeq(charts, LAMBDA p : p # NoPath /\ \E f \in dsk : f.path = p)

PdfCalled == call.fn = "generate_pdf" /\ call.done

\* C4 as stated: the document is one text page followed by one page per
\* element of chart_paths, in order, so 1 + len(chart_paths) pages.
C4_OnePagePerListedChart ==
    PdfCalled =>
        /\ Len(call.ret.pages) = 1 + Len(call.args.chart_paths)
        /\ \A k \in DOMAIN call.args.chart_paths :
              call.ret.pages[k + 1] = <<Item("image", call.args.chart_paths[k])>>

\* C4 amended: the document is one text page followed by one page per
\* element of chart_paths that is a non-empty path of an existing file, in
\* the order of the list; empty and missing paths get no page.
C4_OnePagePerExistingChart ==
    PdfCalled =>
        LET kept == KeptCharts(disk, call.args.chart_paths)
        IN  /\ Len(call.ret.pages) = 1 + Len(kept)
            /\ call.ret.pages[1] = TextItems(domain1, domain2, call.args.stats,
                                             call.args.insights, call.args.note)
            /\ \A k \in DOMAIN call.ret.pages[1] :
                  call.ret.pages[1][k].kind # "image"
            /\ \A k \in DOMAIN kept :
                  call.ret.pages[k + 1] = <<Item("image", kept[k])>>

\* a list of three paths of which some, not all, exist
C4_Witness ==
    /\ PdfCalled
    /\ Len(call.args.chart_paths) = 3
    /\ Len(call.ret.pages) = 3
    /\ call.args.chart_paths[1] = NoPath

C7_OnlyPdfsRemain == \A f \in disk : f.path.suffix = ".pdf"

\* what a run shows: row sets, metrics, insight text, verdict
Shown(o) ==
    [status |-> o.status, filtered1 |-> o.filtered1, filtered2 |-> o.filtered2,
     total |-> o.total, peak |-> o.peak, top_sub |-> o.top_sub, ts |-> o.ts,
     verdict |-> o.verdict, insights |-> o.insights]

\* C8: no run changes the table: it always equals the table as loaded, and
\* what a run shows is what a first run on the loaded table with the same
\* two inputs shows.
C8_TableNeverChanged ==
    /\ df = loaded
    /\ Ran => Shown(out) = Shown(Script(loaded, {}, domain1, domain2).out)

\* a second run whose filter kept some rows of the table and dropped others
C8_Witness ==
    /\ nruns >= 2
    /\ out.status = "ok"
    /\ Len(out.filtered1) >= 1
    /\ Len(out.filtered1) < Len(df)
    /\ disk # {}

\* number of rows of the loaded table that contain q
MatchCount(q) == IF q = <<>> THEN 0 ELSE Cardinality(LiteralMatches(loaded, q))

\* C9: in every run with a non-empty Domain 1 the verdict is produced if and
\* only if Domain 2 is non-empty and matches at least one row; it names as
\* stronger the domain with strictly more matching posts, reports equal
\* engagement exactly when the counts are equal, and its margin is the
\* absolute difference of the counts, at least 1 when one is stronger.
C9_VerdictRule ==
    (Ran /\ domain1 # <<>>) =>
        LET n1 == MatchCount(domain1)
            n2 == MatchCount(domain2)
            v  == out.verdict
        IN  /\ (v.kind # "None") <=> (domain2 # <<>> /\ n2 >= 1)
            /\ (v.kind # "None") =>
                  /\ (v.kind = "stronger" /\ v.winner = domain1 /\ v.loser = domain2)
                        <=> (n1 > n2)
                  /\ (v.kind = "stronger" /\ v.winner = domain2 /\ v.loser = domain1)
                        <=> (n2 > n1)
                  /\ (v.kind = "equal") <=> (n1 = n2)
                  /\ (v.kind = "stronger") =>
                        /\ v.margin = (IF n1 > n2 THEN n1 - n2 ELSE n2 - n1)
                        /\ v.margin >= 1

\* the figure saved under a path
Holds(path) == (CHOOSE f \in disk : f.path = path).holds

\* C10: in every run a PDF is generated if and only if Domain 1 is non-empty;
\* its chart list is the time-series chart, then the subreddit bar chart,
\* then the comparison chart exactly when there is a verdict, so the
\* "Comparison Verdict" section is there if and only if there is a third
\* chart page.
C10_PdfAndChartList ==
    Ran =>
        /\ (out.pdf # NoPath) <=> (domain1 # <<>>)
        /\ (out.pdf # NoPath) =>
              /\ Len(out.chart_paths) \in {2, 3}
              /\ Holds(out.chart_paths[1]) = "timeseries"
              /\ Holds(out.chart_paths[2]) = "subreddit_bar"
              /\ (Len(out.chart_paths) = 3) <=> (out.verdict.kind # "None")
              /\ (Len(out.chart_paths) = 3) => Holds(out.chart_paths[3]) = "comparison"
              /\ (\E k \in DOMAIN out.pages[1] : out.pages[1][k].kind = "verdict")
                    <=> (Len(out.pages) = 4)

====
